---- MODULE Spec2Model ----
(***************************************************************************)
(* Model of src/main.py: the SwitchBot BLE logger.                         *)
(*                                                                         *)
(* main() loops forever: it reads the wall clock, scans BLE advertisements *)
(* for one second, handles every scanned device in turn and finally        *)
(* remembers the scan's time in prev_time.  An uncaught exception          *)
(* (IndexError, OSError, KeyError) leaves main(); KeyboardInterrupt is     *)
(* caught and ends the loop.                                               *)
(*                                                                         *)
(* Representation:                                                         *)
(*  - a MAC address is the sequence of its octets and separators, so that  *)
(*    str.replace(":", "") is computed; directories and file names are     *)
(*    strings, a path is the pair of its directory and its file name;      *)
(*  - a hex string (bluepy's value text) is a sequence of hex digits       *)
(*    0..15, a bytes object a sequence of 0..255 (Python index i is        *)
(*    TLA+ index i+1);                                                     *)
(*  - a float with one decimal is the integer number of tenths (for the    *)
(*    fractional digits 0..9 two floats are equal iff their tenths are);   *)
(*  - a datetime is a number of time slots since 2024-01-01 00:00, the     *)
(*    calendar fields are computed from it; one iteration of the loop      *)
(*    takes one slot, so the clock strictly increases;                     *)
(*  - Python's None is the empty tuple (every stored value is a non-empty  *)
(*    tuple).                                                              *)
(***************************************************************************)
EXTENDS Integers, Sequences, FiniteSets, TLC

(***************************************************************************)
(* Bounds of the model.                                                    *)
(***************************************************************************)
\* number of iterations of the scan loop that are explored
MaxScans == 3
\* resolution of the clock: number of distinct instants per calendar day
SlotsPerDay == 2

(***************************************************************************)
(* Configuration (main.py:24-44).                                          *)
(***************************************************************************)
SWITCHBOT_MAC_LIST ==
  << <<"40", ":", "4c", ":", "ca", ":", "a8", ":", "18", ":", "de">>,
     <<"60", ":", "55", ":", "f9", ":", "3c", ":", "63", ":", "5e">>,
     <<"d3", ":", "35", ":", "34", ":", "35", ":", "65", ":", "74">>,
     <<"d2", ":", "35", ":", "34", ":", "35", ":", "32", ":", "76">>,
     <<"cf", ":", "35", ":", "34", ":", "35", ":", "3b", ":", "56">>,
     <<"c9", ":", "45", ":", "08", ":", "22", ":", "f3", ":", "99">> >>

LOG_DIRECTORY == "/home/hibiki/Documents/temperatureLog"

None == << >>

(***************************************************************************)
(* The environment: devices in radio range and what they advertise.        *)
(***************************************************************************)
\* an address that is not in SWITCHBOT_MAC_LIST
ForeignAddr == <<"aa", ":", "bb", ":", "cc", ":", "dd", ":", "ee", ":", "ff">>

\* the devices a scan may return: a listed plug, a listed meter, a stranger
InRange == {SWITCHBOT_MAC_LIST[1], SWITCHBOT_MAC_LIST[3], ForeignAddr}

\* the 0-based day of 2024 on which the run starts (242 is August 30)
StartDay == 242

\* two manufacturer-data payloads of 14 bytes; Python indexes 10..13 carry
\* the values (0x99 = sign bit + 25, 0xa8 = high bit + 40)
PayloadA == <<105, 9, 0, 0, 0, 0, 0, 0, 1, 128,  3, 153,   0, 150>>
PayloadB == <<105, 9, 0, 0, 0, 0, 0, 0, 2,   0, 10,   5, 168, 151>>

\* manufacturer data as received: a whole payload, or one cut to 13 bytes
\* (enough for a meter, not for a plug) or to 12 bytes (enough for neither)
ManufacturerBytes ==
  {PayloadA, PayloadB, SubSeq(PayloadB, 1, 13), SubSeq(PayloadA, 1, 12)}

\* the device-type bytes a device at addr advertises: SWITCHBOT_MAC_LIST
\* names its first two entries Plug Mini (0x6a) and the others Meter (0x54,
\* 0x77); any device may send a type the program does not know (0x00), a
\* stranger sends any of them
TypeBytes(addr) ==
  IF addr \in {SWITCHBOT_MAC_LIST[1], SWITCHBOT_MAC_LIST[2]} THEN {106, 0}
  ELSE IF addr = ForeignAddr THEN {84, 119, 106, 0}
  ELSE {84, 119, 0}

\* service data as received: the 16-bit UUID alone, or followed by the
\* device-type byte and two status bytes
ServiceBytes(addr) ==
  {<<61, 253>>} \cup {<<61, 253, t, 0, 100>> : t \in TypeBytes(addr)}

\* binascii.b2a_hex as bluepy applies it to an advertisement field
ToHex(b) ==
  [i \in 1..(2 * Len(b)) |->
     IF i % 2 = 1 THEN b[(i + 1) \div 2] \div 16 ELSE b[i \div 2] % 16]

\* what a device at addr may advertise: manufacturer data and service data,
\* each of them possibly missing (None)
Adverts(addr) ==
  [mf : {None} \cup ManufacturerBytes, sd : {None} \cup ServiceBytes(addr)]

\* device.getScanData() for an advertisement: (adtype, value) pairs, the
\* flags and every field that is there, its value as a hex string
ScanData(adv) ==
  << <<1, ToHex(<<6>>)>> >>
  \o (IF adv.mf = None THEN << >> ELSE << <<255, ToHex(adv.mf)>> >>)
  \o (IF adv.sd = None THEN << >> ELSE << <<22, ToHex(adv.sd)>> >>)

\* the shape of an advertisement, for the record of what was handled: which
\* field is missing or too short for Python indexes 2 (service data), 12
\* (meter) and 13 (plug), and otherwise the device-type byte
Shape(adv) ==
  IF adv.mf = None \/ adv.sd = None THEN [kind |-> "missing", type |-> 0]
  ELSE IF Len(adv.sd) < 3 THEN [kind |-> "short_service", type |-> 0]
  ELSE IF adv.sd[3] \in {84, 119} /\ Len(adv.mf) < 13
    THEN [kind |-> "short_manufacturer", type |-> adv.sd[3]]
  ELSE IF adv.sd[3] = 106 /\ Len(adv.mf) < 14
    THEN [kind |-> "short_manufacturer", type |-> adv.sd[3]]
  ELSE [kind |-> "complete", type |-> adv.sd[3]]

(***************************************************************************)
(* datetime: calendar fields of a time given in slots since 2024-01-01.    *)
(***************************************************************************)
DaysInMonth == <<31, 29, 31, 30, 31, 30, 31, 31, 30, 31, 30, 31>>

RECURSIVE MonthDay(_, _)
MonthDay(n, m) ==
  IF m = 12 \/ n < DaysInMonth[m]
    THEN [month |-> m, day |-> n + 1]
    ELSE MonthDay(n - DaysInMonth[m], m + 1)

\* datetime fields (year, month, day, second of the day)
Fields(t) ==
  LET n  == t \div SlotsPerDay
      md == MonthDay(n % 366, 1)
  IN  [year   |-> 2024 + (n \div 366),
       month  |-> md.month,
       day    |-> md.day,
       second |-> (t % SlotsPerDay) * (86400 \div SlotsPerDay)]

\* "%02d" % n
Pad2(n) == IF n < 10 THEN "0" \o ToString(n) ELSE ToString(n)

\* time.strftime("%Y%m%d")
StrfDate(t) ==
  ToString(Fields(t).year) \o Pad2(Fields(t).month) \o Pad2(Fields(t).day)

\* time.strftime("%Y/%m/%d %H:%M:%S"), as the tuple of its six numbers
StrfDateTime(t) ==
  LET f == Fields(t)
  IN  <<f.year, f.month, f.day,
        f.second \div 3600, (f.second \div 60) % 60, f.second % 60>>

(***************************************************************************)
(* State of main().                                                        *)
(***************************************************************************)
VARIABLES
  pc,         \* "scan": top of the while loop; "loop": inside the for loop;
              \* "crashed": an exception left main(); "finished": Ctrl+C
  now,        \* the datetime read at the top of the current iteration
  prev_time,  \* None, or the datetime of the previous iteration
  prev_val,   \* per listed address: None, or the last value written
  devices,    \* devices of the current scan that are still to be handled
  files,      \* rows appended in this run, per path <<directory, file name>>
  dirs,       \* the directories that exist on disk (main.py creates none)
  scans,      \* number of scans started
  seen,       \* history: per listed address the value and date of the last
              \* event that was decoded and handled to the end
  ev,         \* history: the device of the current scan handled last, the
              \* shape of its advertisement and what the handler did with it
  threads,    \* SpecThreads only: per host thread, where it is in the
              \* handler and the event it holds
  delivered,  \* SpecThreads only: number of events the host has delivered
  decoded     \* SpecDecode only: the bytes given to a decoder and, once it
              \* has run, what it returned

vars == <<pc, now, prev_time, prev_val, devices, files, dirs, scans, seen, ev,
          threads, delivered, decoded>>

\* the variables main() itself does not have: they stay as they are in Spec
aside == <<threads, delivered, decoded>>

\* a host thread that holds no event
Idle == [pc |-> "idle", addr |-> << >>, value |-> << >>]

\* the addresses of the allow-list, as a set
MacSet == {SWITCHBOT_MAC_LIST[i] : i \in DOMAIN SWITCHBOT_MAC_LIST}

(***************************************************************************)
(* Pure functions of main.py.                                              *)
(***************************************************************************)
\* bytes.fromhex(s) for a string of an even number of hex digits
FromHex(s) == [i \in 1..(Len(s) \div 2) |-> 16 * s[2 * i - 1] + s[2 * i]]

\* the value of the last scan-data entry of type adtype, "" if there is none
LastValue(scanData, adtype) ==
  LET idx == {i \in DOMAIN scanData : scanData[i][1] = adtype}
  IN  IF idx = {} THEN << >>
      ELSE scanData[CHOOSE i \in idx : \A j \in idx : j <= i][2]

\* returns (manufacturer_data, service_data)
get_broadcast_message(scanData) ==
  <<LastValue(scanData, 255), LastValue(scanData, 22)>>

\* power in tenths of a watt: ((mf_data[12] & 0x7f) << 8) + mf_data[13]
\* mutant: the top bit of the high byte is not masked off
decode_plug_power_unmasked(mf_data) == mf_data[13] * 256 + mf_data[14]

decode_plug_power(mf_data) == (mf_data[13] % 128) * 256 + mf_data[14]

\* (temperature in tenths of a degree, humidity):
\* temp_sign * temp_int + 0.1 * temp_float, and mf_data[12] & 0x7f
\* mutant: the usual convention, sign bit set = negative
decode_meter_temp_and_hum_negative(mf_data) ==
  LET temp_float == mf_data[11] % 16
      temp_int   == mf_data[12] % 128
      temp_sign  == IF mf_data[12] >= 128 THEN -1 ELSE 1
  IN  <<temp_sign * temp_int * 10 + temp_float, mf_data[13] % 128>>

\* mutant: the humidity byte is taken whole
decode_meter_temp_and_hum_whole(mf_data) ==
  LET temp_float == mf_data[11] % 16
      temp_int   == mf_data[12] % 128
      temp_sign  == IF mf_data[12] >= 128 THEN 1 ELSE -1
  IN  <<temp_sign * temp_int * 10 + temp_float, mf_data[13]>>

decode_meter_temp_and_hum(mf_data) ==
  LET temp_float == mf_data[11] % 16
      temp_int   == mf_data[12] % 128
      temp_sign  == IF mf_data[12] >= 128 THEN 1 ELSE -1
  IN  <<temp_sign * temp_int * 10 + temp_float, mf_data[13] % 128>>

\* "".join(parts)
RECURSIVE Join(_)
Join(parts) == IF parts = << >> THEN "" ELSE Head(parts) \o Join(Tail(parts))

\* dev.addr.replace(":", "")
StripColons(addr) == Join(SelectSeq(addr, LAMBDA c : c # ":"))

\* mutant: every device logs to LOG_DIRECTORY itself
LogDir_shared(addr) == LOG_DIRECTORY

\* LOG_DIRECTORY + "/" + dev.addr.replace(":", "")
LogDir(addr) == LOG_DIRECTORY \o "/" \o StripColons(addr)

\* the path update_log_file opens: dir + "/" + strftime("%Y%m%d") + ".csv"
LogPath(dir, time) == <<dir, StrfDate(time) \o ".csv">>

\* the row update_log_file writes: the time stamp and the value's fields
LogRow(time, value) == <<StrfDateTime(time)>> \o value

\* open(path, "a") creates a missing file but no missing directory: it
\* raises FileNotFoundError, an OSError, when the directory is missing
CanOpen(dir) == dir \in dirs

\* mutant: the row is never written to the file
update_log_file_lost(dir, time, value) == files

\* mutant: the file is opened with mode "w", which empties it first
update_log_file_truncate(dir, time, value) ==
  LET path == <<dir, StrfDate(time) \o ".csv">>
  IN  [p \in DOMAIN files \cup {path} |->
         IF p = path THEN <<<<StrfDateTime(time)>> \o value>> ELSE files[p]]

\* the files after update_log_file(dir, time, value) has returned
update_log_file(dir, time, value) ==
  LET path == LogPath(dir, time)
      old  == IF path \in DOMAIN files THEN files[path] ELSE << >>
  IN  [p \in DOMAIN files \cup {path} |->
         IF p = path THEN Append(old, LogRow(time, value)) ELSE files[p]]

\* mutant: every value counts as different
is_value_different_always(devaddr, value) == TRUE

\* mutant: only the first value of a device counts as different
is_value_different_first(devaddr, value) == prev_val[devaddr] = None

is_value_different(devaddr, value) ==
  IF prev_val[devaddr] = None THEN TRUE
  ELSE IF prev_val[devaddr] # value THEN TRUE
  ELSE FALSE

\* mutant: every event counts as the first of its day
is_day_different_always(t) == TRUE

is_day_different(t) ==
  IF prev_time = None THEN TRUE
  ELSE IF Fields(prev_time[1]).day # Fields(t).day THEN TRUE
  ELSE FALSE

\* mutant: the allow-list is not consulted
InMacList_any(addr) == TRUE

\* dev.addr in SWITCHBOT_MAC_LIST
InMacList(addr) == \E i \in DOMAIN SWITCHBOT_MAC_LIST : SWITCHBOT_MAC_LIST[i] = addr

\* manufacturer_data == "" or service_data == ""
MessageMissing(msg) == msg[1] = << >> \/ msg[2] = << >>

\* mutant: everything that is not a plug is taken for a meter
IsMeter_not_plug(service_data_bytes) == service_data_bytes[3] # 106

\* service_data_bytes[2] == 0x54 or service_data_bytes[2] == 0x77
IsMeter(service_data_bytes) ==
  service_data_bytes[3] = 84 \/ service_data_bytes[3] = 119

\* mutant: the plug block is entered whatever the device type
IsPlug_always(service_data_bytes) == TRUE

\* service_data_bytes[2] == 0x6a
IsPlug(service_data_bytes) == service_data_bytes[3] = 106

(***************************************************************************)
(* The body of "for dev in devices" (main.py:110-152) for one device.      *)
(***************************************************************************)
Result(status, decoder, value, attempted) ==
  [status |-> status, decoder |-> decoder, value |-> value,
   attempted |-> attempted]

\* "write log only when different value has arrived or day has changed":
\* the test, the call of update_log_file and what becomes of it.  A key that
\* prev_val does not hold raises KeyError, a failing open() raises OSError.
\* LogDir(devaddr) not in dirs stands for every storage failure.
LogIfNew(devaddr, value, decoder) ==
  IF devaddr \notin DOMAIN prev_val
    THEN Result("KeyError", decoder, value, FALSE)
  ELSE IF is_value_different(devaddr, value) \/ is_day_different(now[1])
    THEN IF CanOpen(LogDir(devaddr))
           THEN Result("logged", decoder, value, TRUE)
           ELSE Result("OSError", decoder, value, TRUE)
  ELSE Result("suppressed", decoder, value, FALSE)

\* what the handler does with one device; indexing a bytes object past its
\* end raises IndexError (service_data_bytes[2], mf_data[12], mf_data[13]).
\* The meter block and the plug block are two if statements that follow each
\* other: the plug test is reached unless the meter block raised.  Their
\* tests exclude each other, so at most one block runs; decoder = "both"
\* would record a run of both.
Handle(addr, scanData) ==
  IF ~InMacList(addr) THEN Result("filtered", "none", None, FALSE)
  ELSE
    LET msg == get_broadcast_message(scanData)
    IN  IF MessageMissing(msg) THEN Result("absent", "none", None, FALSE)
        ELSE
          LET manufacturer_data_bytes == FromHex(msg[1])
              service_data_bytes      == FromHex(msg[2])
              meter ==
                IF Len(manufacturer_data_bytes) < 13
                  THEN Result("IndexError", "meter", None, FALSE)
                  ELSE LogIfNew(addr,
                         decode_meter_temp_and_hum(manufacturer_data_bytes),
                         "meter")
              plug ==
                IF Len(manufacturer_data_bytes) < 14
                  THEN Result("IndexError", "plug", None, FALSE)
                  ELSE LogIfNew(addr,
                         <<decode_plug_power(manufacturer_data_bytes)>>,
                         "plug")
          IN  IF Len(service_data_bytes) < 3
                THEN Result("IndexError", "none", None, FALSE)
              ELSE IF IsMeter(service_data_bytes)
                THEN IF meter.status \in {"IndexError", "OSError", "KeyError"}
                          \/ ~IsPlug(service_data_bytes)
                       THEN meter
                       ELSE [plug EXCEPT !.decoder = "both"]
              ELSE IF IsPlug(service_data_bytes) THEN plug
              ELSE Result("unknown", "none", None, FALSE)

\* the exceptions main() does not catch
Uncaught == {"IndexError", "OSError", "KeyError"}

\* the files once the handler is through: update_log_file has run when the
\* open succeeded
FilesAfter(r, addr) ==
  IF r.status = "logged" THEN update_log_file(LogDir(addr), now[1], r.value)
  ELSE files

\* mutant: prev_val is assigned before update_log_file is called
PrevValAfter_early(r, addr) ==
  IF r.attempted THEN [prev_val EXCEPT ![addr] = r.value] ELSE prev_val

\* mutant: prev_val is bound to a new dict that holds the one reading
PrevValAfter_rebound(r, addr) ==
  IF r.status = "logged" THEN (addr :> r.value) ELSE prev_val

\* prev_val once the handler is through: the assignment follows the return
\* of update_log_file
PrevValAfter(r, addr) ==
  IF r.status = "logged" THEN [prev_val EXCEPT ![addr] = r.value]
  ELSE prev_val

(***************************************************************************)
(* Actions.                                                                *)
(***************************************************************************)
\* the value of ev while no device of the current scan has been handled
NoEvent ==
  [addr |-> None, shape |-> [kind |-> "none", type |-> 0],
   result |-> Result("none", "none", None, FALSE)]

Init ==
  /\ pc = "scan"
  /\ now = None
  /\ prev_time = None
  /\ prev_val = [mac \in MacSet |-> None]
  /\ devices = {}
  /\ files = << >>
  /\ dirs \in SUBSET {LogDir(a) : a \in InRange \cap MacSet}
  /\ scans = 0
  /\ seen = [mac \in MacSet |-> None]
  /\ ev = NoEvent
  /\ threads = << >>
  /\ delivered = 0
  /\ decoded = None

\* the clock at the next reading: the run starts in the last slot of
\* StartDay, and one iteration of the loop takes one slot
NextTime ==
  IF now = None THEN StartDay * SlotsPerDay + (SlotsPerDay - 1)
  ELSE now[1] + 1

\* now = datetime.datetime.now(); devices = scanner.scan(1).  A scan
\* returns each device it heard once, in no particular order.
BeginScan ==
  /\ pc = "scan"
  /\ scans < MaxScans
  /\ now' = <<NextTime>>
  /\ devices' \in SUBSET InRange
  /\ scans' = scans + 1
  /\ pc' = "loop"
  /\ UNCHANGED <<prev_time, prev_val, files, dirs, seen, ev, aside>>

\* one iteration of "for dev in devices"
HandleDevice ==
  /\ pc = "loop"
  /\ \E dev \in devices : \E adv \in Adverts(dev) :
       \E r \in {Handle(dev, ScanData(adv))} :
           /\ files' = FilesAfter(r, dev)
           /\ prev_val' = PrevValAfter(r, dev)
           /\ pc' = IF r.status \in Uncaught THEN "crashed" ELSE "loop"
           /\ devices' = devices \ {dev}
           /\ seen' = IF r.status \in {"logged", "suppressed"}
                        THEN [seen EXCEPT ![dev] = <<r.value, StrfDate(now[1])>>]
                        ELSE seen
           /\ ev' = [addr |-> dev, shape |-> Shape(adv), result |-> r]
  /\ UNCHANGED <<now, prev_time, dirs, scans, aside>>

\* prev_time = now, after the last device of the scan
EndScan ==
  /\ pc = "loop"
  /\ devices = {}
  /\ prev_time' = now
  /\ pc' = "scan"
  /\ ev' = NoEvent
  /\ UNCHANGED <<now, prev_val, devices, files, dirs, scans, seen, aside>>

\* except KeyboardInterrupt: print("finish").  Ctrl+C is taken to arrive
\* while the program waits in scanner.scan(1), where it spends its time.
Interrupt ==
  /\ pc = "scan"
  /\ pc' = "finished"
  /\ UNCHANGED <<now, prev_time, prev_val, devices, files, dirs, scans, seen, ev, aside>>

Next == BeginScan \/ HandleDevice \/ EndScan \/ Interrupt

Spec == Init /\ [][Next]_vars

(***************************************************************************)
(* The handler under a host that delivers events on several threads.       *)
(*                                                                         *)
(* main() handles the devices of a scan one after the other (Spec).  Here  *)
(* the body of the for loop is run by the threads of a host, one event     *)
(* each, during one iteration of the while loop: now and prev_time are     *)
(* those of the iteration and lie on the same day.  main.py holds no lock, *)
(* so Python may switch threads between the test of line 130/146, the      *)
(* write of update_log_file and the assignment to prev_val.                *)
(***************************************************************************)
\* the threads of the host
ThreadIds == {"t1", "t2"}

\* number of events the host delivers
MaxEvents == 3

\* the first instant of the day after StartDay
DayStart == (StartDay + 1) * SlotsPerDay

\* the third iteration of main(), after two scans that heard no device
InitThreads ==
  /\ pc = "loop"
  /\ now = <<DayStart + 1>>
  /\ prev_time = <<DayStart>>
  /\ prev_val = [mac \in MacSet |-> None]
  /\ devices = {}
  /\ files = << >>
  /\ dirs \in SUBSET {LogDir(a) : a \in InRange \cap MacSet}
  /\ scans = 3
  /\ seen = [mac \in MacSet |-> None]
  /\ ev = NoEvent
  /\ threads = [t \in ThreadIds |-> Idle]
  /\ delivered = 0
  /\ decoded = None

\* a thread takes an event and runs the handler up to the test "value is
\* different or day is different" (main.py:111-130, 139-146); it goes on to
\* the write when the test says so, and is through with the event otherwise
ThreadCheck(t) ==
  /\ threads[t].pc = "idle"
  /\ delivered < MaxEvents
  /\ \E dev \in InRange \cap MacSet : \E adv \in Adverts(dev) :
       \E r \in {Handle(dev, ScanData(adv))} :
         threads' = [threads EXCEPT ![t] =
           IF r.attempted
             THEN [pc |-> "write", addr |-> dev, value |-> r.value]
           ELSE IF r.status \in Uncaught
             THEN [pc |-> "crashed", addr |-> dev, value |-> None]
           ELSE Idle]
  /\ delivered' = delivered + 1
  /\ UNCHANGED <<pc, now, prev_time, prev_val, devices, files, dirs, scans,
                 seen, ev, decoded>>

\* update_log_file(LOG_DIRECTORY + ..., now, value)  (main.py:131-135, 147-151)
ThreadWrite(t) ==
  /\ threads[t].pc = "write"
  /\ IF CanOpen(LogDir(threads[t].addr))
       THEN /\ files' = update_log_file(LogDir(threads[t].addr), now[1],
                                        threads[t].value)
            /\ threads' = [threads EXCEPT ![t].pc = "commit"]
       ELSE /\ files' = files
            /\ threads' = [threads EXCEPT ![t].pc = "crashed"]
  /\ UNCHANGED <<pc, now, prev_time, prev_val, devices, dirs, scans, seen, ev,
                 delivered, decoded>>

\* prev_val[dev.addr] = value  (main.py:136, 152)
ThreadCommit(t) ==
  /\ threads[t].pc = "commit"
  /\ prev_val' = [prev_val EXCEPT ![threads[t].addr] = threads[t].value]
  /\ threads' = [threads EXCEPT ![t] = Idle]
  /\ UNCHANGED <<pc, now, prev_time, devices, files, dirs, scans, seen, ev,
                 delivered, decoded>>

NextThreads ==
  \E t \in ThreadIds : ThreadCheck(t) \/ ThreadWrite(t) \/ ThreadCommit(t)

SpecThreads == InitThreads /\ [][NextThreads]_vars

(***************************************************************************)
(* The decoders on their own: a manufacturer-data bytes object is given to *)
(* decode_meter_temp_and_hum or to decode_plug_power, which returns.       *)
(***************************************************************************)
\* the values of a byte
Byte == 0..255

\* a call of decode_meter_temp_and_hum with bytes 10, 11, 12 of the
\* manufacturer data set to f, s, g
MeterCall(f, s, g) ==
  [fn |-> "decode_meter_temp_and_hum",
   mf_data |-> [PayloadA EXCEPT ![11] = f, ![12] = s, ![13] = g],
   out |-> None]

\* a call of decode_plug_power with bytes 12, 13 of the manufacturer data
\* set to h, l
PlugCall(h, l) ==
  [fn |-> "decode_plug_power",
   mf_data |-> [PayloadA EXCEPT ![13] = h, ![14] = l],
   out |-> None]

\* the calls explored: every pair of temperature bytes with one humidity
\* byte, every humidity byte with one pair of temperature bytes, and every
\* pair of power bytes
InitDecode ==
  /\ pc = "scan"
  /\ now = None
  /\ prev_time = None
  /\ prev_val = [mac \in MacSet |-> None]
  /\ devices = {}
  /\ files = << >>
  /\ dirs = {}
  /\ scans = 0
  /\ seen = [mac \in MacSet |-> None]
  /\ ev = NoEvent
  /\ threads = << >>
  /\ delivered = 0
  /\ \/ \E f \in Byte, s \in Byte : decoded = MeterCall(f, s, PayloadB[13])
     \/ \E g \in Byte : decoded = MeterCall(PayloadA[11], PayloadA[12], g)
     \/ \E h \in Byte, l \in Byte : decoded = PlugCall(h, l)

\* value = decode_meter_temp_and_hum(manufacturer_data_bytes)
CallMeterDecoder ==
  /\ decoded.fn = "decode_meter_temp_and_hum"
  /\ decoded.out = None
  /\ decoded' = [decoded EXCEPT !.out = decode_meter_temp_and_hum(decoded.mf_data)]
  /\ UNCHANGED <<pc, now, prev_time, prev_val, devices, files, dirs, scans,
                 seen, ev, threads, delivered>>

\* value = [decode_plug_power(manufacturer_data_bytes)]
CallPlugDecoder ==
  /\ decoded.fn = "decode_plug_power"
  /\ decoded.out = None
  /\ decoded' = [decoded EXCEPT !.out = <<decode_plug_power(decoded.mf_data)>>]
  /\ UNCHANGED <<pc, now, prev_time, prev_val, devices, files, dirs, scans,
                 seen, ev, threads, delivered>>

NextDecode == CallMeterDecoder \/ CallPlugDecoder

SpecDecode == InitDecode /\ [][NextDecode]_vars

(***************************************************************************)
(* Vocabulary of the properties.                                           *)
(***************************************************************************)
\* a step that handles one device; ev' then describes the event
HandledStep == pc = "loop" /\ devices' # devices

\* the device-type bytes the program decodes: 0x54, 0x77 (meter), 0x6a (plug)
KnownTypes == {84, 119, 106}

\* an advertisement that has both fields, long enough, and a known type
Decodable(e) == e.shape.kind = "complete" /\ e.shape.type \in KnownTypes

\* the file of an address and a calendar date
FileOf(a, date) == <<LogDir(a), date \o ".csv">>

\* the rows written for an address, over all its files
RowsOf(a) ==
  UNION {{files[p][i] : i \in DOMAIN files[p]} :
           p \in {q \in DOMAIN files : q[1] = LogDir(a)}}

\* time stamp x is earlier than time stamp y
Before(x, y) ==
  \E i \in 1..6 : x[i] < y[i] /\ \A j \in 1..(i - 1) : x[j] = y[j]

\* the row written last for an address that has rows
LatestRow(a) == CHOOSE r \in RowsOf(a) : \A q \in RowsOf(a) : ~Before(r[1], q[1])

\* the step leaves the files and the store alone
Frame == files' = files /\ prev_val' = prev_val /\ prev_time' = prev_time

\* the step appends exactly one row, carrying value v and the scan's time,
\* to today's file of address a, and touches no other file
AppendedOne(a, v) ==
  LET path == FileOf(a, StrfDate(now[1]))
      old  == IF path \in DOMAIN files THEN files[path] ELSE << >>
  IN  /\ DOMAIN files' = DOMAIN files \cup {path}
      /\ files'[path] = Append(old, <<StrfDateTime(now[1])>> \o v)
      /\ \A p \in DOMAIN files : p # path => files'[p] = files[p]

(***************************************************************************)
(* C1: day rotation is per device: on every calendar date on which a       *)
(* decodable event of an address was handled, the file of that address and *)
(* date holds at least one row.  (The code compares with the day of the    *)
(* previous scan, whatever device was seen in it.)                         *)
(***************************************************************************)
C1_RowOnEveryDayOfDevice ==
  \A a \in MacSet :
    seen[a] # None =>
      /\ FileOf(a, seen[a][2]) \in DOMAIN files
      /\ files[FileOf(a, seen[a][2])] # << >>

(***************************************************************************)
(* C2: dedup: when an event of an address carries the reading of the       *)
(* previous decoded event of that address and both fall on the same        *)
(* calendar day, the second event appends nothing and changes no stored    *)
(* state, and the reading is the one of the last row on file.              *)
(***************************************************************************)
C2_Dedup ==
  [][ ( /\ HandledStep
        /\ ev'.addr \in MacSet
        /\ Decodable(ev')
        /\ seen[ev'.addr] = <<ev'.result.value, StrfDate(now[1])>> )
      => /\ ev'.result.status = "suppressed"
         /\ Frame
         /\ RowsOf(ev'.addr) # {}
         /\ Tail(LatestRow(ev'.addr)) = ev'.result.value ]_vars

\* a second event with the same reading was suppressed on the day whose
\* file holds the one row of the first
C2_Witness ==
  /\ ev.result.status = "suppressed"
  /\ FileOf(ev.addr, StrfDate(now[1])) \in DOMAIN files
  /\ Len(files[FileOf(ev.addr, StrfDate(now[1]))]) = 1
  /\ Tail(files[FileOf(ev.addr, StrfDate(now[1]))][1]) = ev.result.value

(***************************************************************************)
(* C3: a first or changed reading is always logged: for a decodable event  *)
(* of a listed address whose reading is the first or differs from the      *)
(* stored one, update_log_file is called with that reading whatever the    *)
(* day, and where the directory is there exactly one row carrying it is    *)
(* appended.                                                               *)
(***************************************************************************)
C3_FirstOrChangedLogged ==
  [][ ( /\ HandledStep
        /\ ev'.addr \in MacSet
        /\ Decodable(ev')
        /\ \/ prev_val[ev'.addr] = None
           \/ prev_val[ev'.addr] # ev'.result.value )
      => /\ ev'.result.attempted
         /\ ev'.result.value # None
         /\ LogDir(ev'.addr) \in dirs => AppendedOne(ev'.addr, ev'.result.value) ]_vars

\* a changed reading was logged on the day of the reading before it
C3_Witness ==
  /\ ev.result.status = "logged"
  /\ FileOf(ev.addr, StrfDate(now[1])) \in DOMAIN files
  /\ Len(files[FileOf(ev.addr, StrfDate(now[1]))]) = 2
  /\ Tail(files[FileOf(ev.addr, StrfDate(now[1]))][1]) # ev.result.value
  /\ Tail(files[FileOf(ev.addr, StrfDate(now[1]))][2]) = ev.result.value

(***************************************************************************)
(* C4: a storage failure while an event is handled does not end the        *)
(* collection session: the handler goes on with the next device.           *)
(***************************************************************************)
C4_SessionSurvivesStorageFailure ==
  (ev.result.attempted /\ LogDir(ev.addr) \notin dirs) => pc = "loop"

(***************************************************************************)
(* C5: a failed write commits nothing: the stored last reading and the     *)
(* stored day are after the event what they were before it, and no row     *)
(* has been appended.                                                      *)
(***************************************************************************)
C5_FailedWriteCommitsNothing ==
  [][ (HandledStep /\ ev'.result.attempted /\ LogDir(ev'.addr) \notin dirs)
      => Frame /\ seen' = seen ]_vars

\* a write has failed and the reading is not the stored one
C5_Witness ==
  /\ ev.result.attempted
  /\ LogDir(ev.addr) \notin dirs
  /\ ev.result.value # None
  /\ prev_val[ev.addr] # ev.result.value

(***************************************************************************)
(* C6: for every address the stored last reading is absent while no row    *)
(* has been written for the address, and otherwise the reading of the row  *)
(* written last for it; it changes only in a step that appends a row       *)
(* carrying the new stored reading to a file of that address.              *)
(***************************************************************************)
C6_StoreIsLastRow ==
  \A a \in MacSet :
    IF RowsOf(a) = {} THEN prev_val[a] = None
    ELSE prev_val[a] = Tail(LatestRow(a))

C6_StoreChangesWithAppend ==
  \A a \in MacSet :
    prev_val'[a] # prev_val[a] => HandledStep /\ AppendedOne(a, prev_val'[a])

\* C6: the store is the last row in every state, and changes only with an
\* append of a row for the same address
C6_StoreFollowsRows == []C6_StoreIsLastRow /\ [][C6_StoreChangesWithAppend]_vars

\* an address has two rows and the store holds the reading of the later one
C6_Witness ==
  \E a \in MacSet :
    /\ Cardinality(RowsOf(a)) = 2
    /\ \E r \in RowsOf(a) : Tail(r) # prev_val[a]
    /\ prev_val[a] = Tail(LatestRow(a))

(***************************************************************************)
(* C7: a malformed payload (service data too short for the type byte,      *)
(* manufacturer data too short for the decoder) is dropped silently: no    *)
(* error reaches the host and the handler goes on.                         *)
(***************************************************************************)
C7_MalformedDroppedSilently ==
  (ev.addr \in MacSet /\ ev.shape.kind \in {"short_service", "short_manufacturer"})
    => (pc = "loop" /\ ev.result.status \notin Uncaught)

(***************************************************************************)
(* C8: a write for an address whose log directory is missing creates the   *)
(* directory and appends the row: after every write the directory exists   *)
(* and the row is on file.                                                 *)
(***************************************************************************)
C8_MissingDirectoryCreated ==
  ev.result.attempted =>
    /\ LogDir(ev.addr) \in dirs
    /\ ev.result.status = "logged"
    /\ Tail(LatestRow(ev.addr)) = ev.result.value

(***************************************************************************)
(* C9: an event classified Unknown has no effect: when service data or     *)
(* manufacturer data is missing, or the type byte is none of 0x54, 0x77,   *)
(* 0x6a, no row is appended, no write is tried, and the stored readings    *)
(* and the stored day stay as they are.                                    *)
(***************************************************************************)
C9_UnknownHasNoEffect ==
  [][ ( /\ HandledStep
        /\ \/ ev'.shape.kind = "missing"
           \/ ev'.shape.kind = "complete" /\ ev'.shape.type \notin KnownTypes )
      => /\ Frame
         /\ ~ev'.result.attempted
         /\ ev'.result.decoder = "none"
         /\ pc' = "loop" ]_vars

\* a listed device with a stored reading has sent an unknown type byte
C9_Witness ==
  /\ ev.addr \in MacSet
  /\ ev.shape.kind = "complete"
  /\ ev.shape.type \notin KnownTypes
  /\ ev.result.status = "unknown"
  /\ prev_val[ev.addr] # None

(***************************************************************************)
(* C10: allow-list pre-filter: an advertisement from an address that is    *)
(* not in SWITCHBOT_MAC_LIST reaches neither the classification nor a      *)
(* decoder and causes no row and no change of state, whatever it carries.  *)
(***************************************************************************)
C10_AllowListFilter ==
  [][ (HandledStep /\ ev'.addr \notin MacSet)
      => /\ ev'.result.status = "filtered"
         /\ ev'.result.decoder = "none"
         /\ ~ev'.result.attempted
         /\ Frame
         /\ seen' = seen
         /\ pc' = "loop" ]_vars

\* a stranger has sent a complete meter advertisement
C10_Witness ==
  /\ ev.addr = ForeignAddr
  /\ ev.shape.kind = "complete"
  /\ ev.shape.type = 84
  /\ ev.result.status = "filtered"

(***************************************************************************)
(* C11: files are append-only and in time order: a step never removes a    *)
(* file nor changes or drops a row a file already has, it can only add     *)
(* rows at the end (so every file extends what it held in every earlier    *)
(* state), and within one file the time stamps never decrease from one row *)
(* to the next.  The clock of the model does not go backwards.             *)
(***************************************************************************)
C11_RowsInOrder ==
  \A p \in DOMAIN files :
    \A i, j \in DOMAIN files[p] :
      i < j => ~Before(files[p][j][1], files[p][i][1])

C11_FilesOnlyGrow ==
  \A p \in DOMAIN files :
    /\ p \in DOMAIN files'
    /\ Len(files'[p]) >= Len(files[p])
    /\ SubSeq(files'[p], 1, Len(files[p])) = files[p]

\* C11: rows are in time order in every state, and every step extends files
C11_AppendOnlyOrdered == []C11_RowsInOrder /\ [][C11_FilesOnlyGrow]_vars

\* a second row has been appended to a file, later than the first
C11_Witness ==
  /\ ev.result.status = "logged"
  /\ \E p \in DOMAIN files :
       /\ Len(files[p]) = 2
       /\ Before(files[p][1][1], files[p][2][1])
       /\ files[p][2][1] = StrfDateTime(now[1])

(***************************************************************************)
(* C12: file routing: the row of an event of address A taken at time T is  *)
(* appended to exactly one file, the one whose directory is named by A     *)
(* without its colons and whose name is the date of T; no other step       *)
(* changes a file.  So every row of the file of (A, D) was written for an  *)
(* event of A and carries a time stamp of date D, and no two addresses     *)
(* share a directory.                                                      *)
(***************************************************************************)
\* the six octets of an address, without the colons between them
ColonFree(a) == a[1] \o a[3] \o a[5] \o a[7] \o a[9] \o a[11]

\* the file that belongs to address a and the date of time stamp st
RoutedFile(a, st) ==
  <<LOG_DIRECTORY \o "/" \o ColonFree(a),
    ToString(st[1]) \o Pad2(st[2]) \o Pad2(st[3]) \o ".csv">>

C12_RowsWhereTheyBelong ==
  /\ \A p \in DOMAIN files :
       \E a \in MacSet :
         \A i \in DOMAIN files[p] : p = RoutedFile(a, files[p][i][1])
  /\ Cardinality({LogDir(a) : a \in MacSet}) = Cardinality(MacSet)

C12_RoutedStep ==
  files' # files =>
    /\ HandledStep
    /\ ev'.addr \in MacSet
    /\ LET path == RoutedFile(ev'.addr, StrfDateTime(now[1]))
           old  == IF path \in DOMAIN files THEN files[path] ELSE << >>
       IN  /\ DOMAIN files' = DOMAIN files \cup {path}
           /\ files'[path] =
                Append(old, <<StrfDateTime(now[1])>> \o ev'.result.value)
           /\ \A p \in DOMAIN files : p # path => files'[p] = files[p]

\* C12: every row is in the file of its address and date, and a row gets
\* there by the one append of the step that handles its event
C12_FileRouting == []C12_RowsWhereTheyBelong /\ [][C12_RoutedStep]_vars

\* two addresses have a file each and one of them has files of two dates
C12_Witness ==
  /\ \E a \in MacSet : \E p, q \in DOMAIN files :
       p # q /\ p[1] = LogDir(a) /\ q[1] = LogDir(a)
  /\ \E p, q \in DOMAIN files : p[1] # q[1]

RECURSIVE BitAnd(_, _)
BitAnd(a, b) ==
  IF a = 0 \/ b = 0 THEN 0
  ELSE (a % 2) * (b % 2) + 2 * BitAnd(a \div 2, b \div 2)

RECURSIVE BitOr(_, _)
BitOr(a, b) ==
  IF a = 0 THEN b
  ELSE IF b = 0 THEN a
  ELSE (IF a % 2 = 1 \/ b % 2 = 1 THEN 1 ELSE 0)
         + 2 * BitOr(a \div 2, b \div 2)

RECURSIVE BitXor(_, _)
BitXor(a, b) ==
  IF a = 0 THEN b
  ELSE IF b = 0 THEN a
  ELSE (((a % 2) + (b % 2)) % 2) + 2 * BitXor(a \div 2, b \div 2)

\* a << n
ShiftLeft(a, n) == a * 2 ^ n

\* a decoder has returned
MeterDecoded ==
  decoded # None /\ decoded.fn = "decode_meter_temp_and_hum" /\ decoded.out # None

PlugDecoded ==
  decoded # None /\ decoded.fn = "decode_plug_power" /\ decoded.out # None

\* the sign the second temperature byte s stands for
SignOf(s) == IF BitAnd(s, 128) = 128 THEN 1 ELSE -1

(***************************************************************************)
(* C14: meter decoding: with f and s the two temperature bytes, the        *)
(* temperature in tenths of a degree is sign * 10 * (s & 0x7F) + (f &      *)
(* 0x0F), where sign is +1 when the high bit of s is set and -1 when it is *)
(* clear, and the humidity is the low 7 bits of the byte that follows.     *)
(* Sign set, magnitude 25, fraction 3 is 25.3; sign clear, magnitude 5,    *)
(* fraction 0 is -5.0.                                                     *)
(***************************************************************************)
C14_MeterDecoding ==
  MeterDecoded =>
    LET f == decoded.mf_data[11]
        s == decoded.mf_data[12]
        g == decoded.mf_data[13]
    IN  /\ decoded.out[1] = SignOf(s) * 10 * BitAnd(s, 127) + BitAnd(f, 15)
        /\ decoded.out[2] = BitAnd(g, 127)
        /\ (s = 128 + 25 /\ BitAnd(f, 15) = 3) => decoded.out[1] = 253
        /\ (s = 5 /\ BitAnd(f, 15) = 0) => decoded.out[1] = -50

\* sign bit set, magnitude 25, fraction 3 (and high nibble set) was decoded
C14_Witness ==
  /\ MeterDecoded
  /\ decoded.mf_data[11] = 243
  /\ decoded.mf_data[12] = 153
  /\ decoded.out[1] = 253

(***************************************************************************)
(* C15: plug decoding: with h and l the two power bytes, the power in      *)
(* tenths of a watt is ((h & 0x7F) << 8) | l, a number in 0..32767; the    *)
(* top bit of h does not change the result (h and h XOR 0x80 decode to the *)
(* same power), and bytes 0x00, 0x96 decode to 15.0 W.                     *)
(***************************************************************************)
C15_PlugDecoding ==
  PlugDecoded =>
    LET h == decoded.mf_data[13]
        l == decoded.mf_data[14]
    IN  /\ decoded.out[1] = BitOr(ShiftLeft(BitAnd(h, 127), 8), l)
        /\ decoded.out[1] \in 0..32767
        /\ decoded.out[1] =
             decode_plug_power([decoded.mf_data EXCEPT ![13] = BitXor(h, 128)])
        /\ (h = 0 /\ l = 150) => decoded.out[1] = 150

\* the high byte 0xff with low byte 0x96 was decoded: 0x7f96 tenths
C15_Witness ==
  /\ PlugDecoded
  /\ decoded.mf_data[13] = 255
  /\ decoded.mf_data[14] = 150
  /\ decoded.out[1] = 32662

(***************************************************************************)
(* C17: every meter reading the decoder produces lies in the range of the  *)
(* data model: the fractional digit of the temperature is in 0..9 and the  *)
(* humidity in 0..100, whatever the manufacturer data.                     *)
(***************************************************************************)
\* the part of the decoded temperature that the first byte contributes
FractionalPart ==
  decoded.out[1]
    - SignOf(decoded.mf_data[12]) * 10 * BitAnd(decoded.mf_data[12], 127)

C17_InDataModelRange ==
  MeterDecoded => FractionalPart \in 0..9 /\ decoded.out[2] \in 0..100

\* C17 as the code has it: the decoder masks and does not validate, so the
\* fractional part is a nibble, 0..15, and the humidity has 7 bits, 0..127
C17_InMaskRange ==
  MeterDecoded => FractionalPart \in 0..15 /\ decoded.out[2] \in 0..127

\* a humidity byte of 0xff was decoded to 127 per cent
C17_Witness ==
  /\ MeterDecoded
  /\ decoded.mf_data[13] = 255
  /\ decoded.out[2] = 127

(***************************************************************************)
(* C16: classification exclusivity: handling one event of a listed device  *)
(* calls at most one decoder and appends at most one row.  A type byte     *)
(* 0x54 or 0x77 leads to the meter decoder only and to a row of two        *)
(* fields, 0x6a to the plug decoder only and to a row of one field, and    *)
(* any other byte to no decoder call and no write.                         *)
(***************************************************************************)
C16_OneDecoderOneRow ==
  (HandledStep /\ ev'.addr \in MacSet) =>
    LET r == ev'.result
        typed == ev'.shape.kind \in {"complete", "short_manufacturer"}
    IN  /\ r.decoder \in {"none", "meter", "plug"}
        /\ files' # files => AppendedOne(ev'.addr, r.value)
        /\ (typed /\ ev'.shape.type \in {84, 119}) =>
             /\ r.decoder = "meter"
             /\ files' # files => Len(r.value) = 2
        /\ (typed /\ ev'.shape.type = 106) =>
             /\ r.decoder = "plug"
             /\ files' # files => Len(r.value) = 1
        /\ (typed /\ ev'.shape.type \notin {84, 119, 106}) =>
             /\ r.decoder = "none"
             /\ ~r.attempted
             /\ files' = files

C16_ClassificationExclusive == [][C16_OneDecoderOneRow]_vars

\* a plug's event has been logged with one field while a meter's file holds
\* a row of two fields
C16_Witness ==
  /\ ev.result.status = "logged"
  /\ ev.result.decoder = "plug"
  /\ ev.shape.type = 106
  /\ Len(LatestRow(ev.addr)) = 2
  /\ \E a \in MacSet : \E row \in RowsOf(a) : Len(row) = 3

(***************************************************************************)
(* C18: in a run that starts with empty log files and whose clock does not *)
(* go backwards, no file ever holds two adjacent rows with the same        *)
(* reading: a reading equal to the stored one is written again only as the *)
(* first row of the file of another day.                                   *)
(***************************************************************************)
C18_NoAdjacentRepeat ==
  \A p \in DOMAIN files :
    \A i \in 1..(Len(files[p]) - 1) :
      Tail(files[p][i]) # Tail(files[p][i + 1])

C18_RepeatOpensNewDay ==
  \A a \in MacSet :
    LET path == FileOf(a, StrfDate(now[1]))
    IN  (HandledStep /\ ev'.addr = a /\ files' # files
           /\ ev'.result.value = prev_val[a]) =>
          /\ path \notin DOMAIN files
          /\ files'[path] = <<LogRow(now[1], prev_val[a])>>
          /\ \E q \in DOMAIN files :
               q[1] = LogDir(a) /\ Tail(files[q][Len(files[q])]) = prev_val[a]

\* C18: no adjacent equal rows in any state, and a repeated reading is written
\* only as the first row of a new day's file
C18_NoDuplicateRows == []C18_NoAdjacentRepeat /\ [][C18_RepeatOpensNewDay]_vars

\* the reading of the last row of yesterday's file is the first row of
\* today's file of the same address
C18_Witness ==
  \E a \in MacSet : \E p, q \in DOMAIN files :
    /\ p[1] = LogDir(a) /\ q[1] = LogDir(a) /\ p # q
    /\ q = FileOf(a, StrfDate(now[1]))
    /\ Len(files[q]) = 1
    /\ Tail(files[q][1]) = Tail(files[p][Len(files[p])])

(***************************************************************************)
(* C19: frame: handling an event of address X leaves the stored last       *)
(* reading of every other address as it is and appends nothing to a file   *)
(* of another address; the keys of the store are the addresses of the      *)
(* allow-list during the whole run, so no lookup in the store misses its   *)
(* key.                                                                    *)
(***************************************************************************)
C19_KeysAreAllowList ==
  /\ DOMAIN prev_val = MacSet
  /\ ev.result.status # "KeyError"

C19_OthersUntouched ==
  HandledStep =>
    /\ \A y \in MacSet \ {ev'.addr} : prev_val'[y] = prev_val[y]
    /\ \A others \in {{LogDir(y) : y \in MacSet \ {ev'.addr}}} :
         \A p \in DOMAIN files' :
           p[1] \in others => p \in DOMAIN files /\ files'[p] = files[p]

\* C19: the store has the allow-list's keys in every state, and a handled
\* event touches the reading and the files of its own address only
C19_Frame == []C19_KeysAreAllowList /\ [][C19_OthersUntouched]_vars

\* an event of one address was logged while another address has a stored
\* reading and a file
C19_Witness ==
  /\ ev.result.status = "logged"
  /\ \E y \in MacSet \ {ev.addr} :
       /\ prev_val[y] # None
       /\ \E p \in DOMAIN files : p[1] = LogDir(y)
  /\ prev_val[ev.addr] = ev.result.value

====
